---- MODULE Spec2Model ----
(***************************************************************************)
(* Model of the Teardown importer add-on for Blender                       *)
(* (blender/python-addon/teardown_import/__init__.py).                     *)
(*                                                                         *)
(* Two state machines share this module:                                   *)
(*   - the scene build: ImportBlockModel.execute calling create_object on  *)
(*     the root of an entity tree, with the recursion of create_object     *)
(*     kept as an explicit call stack (Spec, SpecSession);                 *)
(*   - the voxel-run decode loop over gen_chunk_coords (SpecDecode).       *)
(* Floats of the source are integers here; a quotient is kept as the pair  *)
(* <<numerator, denominator>>.                                             *)
(***************************************************************************)
EXTENDS Integers, Sequences, FiniteSets

VARIABLES
    \* ---- the input file (the decoded entity tree) ----
    nEntities,      \* number of entities; entity 1 is the root
    parentOf,       \* parentOf[e]: the entity whose "children" list holds e (0 for the root)
    entities,       \* entities[e]: the entity record (kind, data, transform)
    \* ---- the add-on's state ----
    pc,             \* "idle" | "importing" | "returned" | "crashed"
    stack,          \* call stack of create_object: frames [entity, obj, next]
    objects,        \* bpy.data.objects, in creation order
    lights,         \* bpy.data.lights, in creation order
    meshes,         \* bpy.data.meshes, in creation order
    collection,     \* collection.objects of the running import, in link order
    tot_n_objects,  \* module global
    tot_n_voxels,   \* module global
    importsLeft,    \* imports the session still performs
    importBase,     \* the two counters as they were when the running import began
    raised,         \* the exception that ended the running import, or NoError
    \* ---- the voxel-run decode loop ----
    size,           \* data["size"]: <<x, y, z>>
    voxel_data,     \* data["voxel_data"]: flat byte sequence
    dpc,            \* "off" | "pair" | "run" | "done"
    gen,            \* state of the generator gen_chunk_coords(size)
    pos,            \* offset of the next chunk of voxel_data
    left,           \* iterations left of "for _ in range(n_times+1)"
    i,              \* the loop's counter i
    verts,          \* bm.verts, in creation order
    outcome         \* "" | "mesh" | "weird mesh" | "ValueError"

buildVars == <<nEntities, parentOf, entities, pc, stack, objects, lights, meshes,
               collection, tot_n_objects, tot_n_voxels, importsLeft, importBase, raised>>
decodeVars == <<size, voxel_data, dpc, gen, pos, left, i, verts, outcome>>
vars == <<buildVars, decodeVars>>

(***************************************************************************)
(* Bounds of the model.                                                    *)
(***************************************************************************)
MaxEntities == 3
MaxTreeEntities == 4
MaxImports == 2
MaxDim == 2
MaxByte == 1
MaxStreamLen == 4

(***************************************************************************)
(* Program constants.                                                      *)
(***************************************************************************)
VoxelLimit == 1024 * 8
VoxelLimit2 == 500000
LightEnergy == 100

(***************************************************************************)
(* Input values.                                                           *)
(***************************************************************************)
NoTransform == [some |-> FALSE]
IdentityTransform == [some |-> TRUE, pos |-> <<4, 5, 6>>, rot |-> <<0, 0, 0, 1>>]
TurnedTransform == [some |-> TRUE, pos |-> <<1, 2, 3>>, rot |-> <<5, 6, 7, 8>>]

NoData == [none |-> TRUE]

NoError == [entity |-> 0, error |-> ""]

LightData(kind, angle, penumbra, sz) ==
    [kind |-> kind, rgba |-> [r |-> 11, g |-> 12, b |-> 13, a |-> 14],
     cone_angle |-> angle, cone_penumbra |-> penumbra, size |-> sz, reach |-> 9]

\* voxel_positions is a flat list, three floats per voxel (unpack_positions reads
\* it in triples); only its length matters to create_object.
ShapeData(nVoxels) == [voxel_positions_len |-> 3 * nVoxels]

Entity(kind, data, transform) == [kind |-> kind, data |-> data, transform |-> transform]

VoxelCounts == {VoxelLimit, VoxelLimit + 1, VoxelLimit2 + 1}

EntityInputs ==
    {Entity("Body", NoData, NoTransform),
     Entity("Joint", NoData, TurnedTransform),
     Entity("Shape", ShapeData(0), NoTransform)}
    \cup {Entity("Light", LightData("Sphere", 0, 0, 21), TurnedTransform),
          Entity("Light", LightData("Area", 3, 1, 22), NoTransform),
          Entity("Light", LightData("Cone", 0, 1, 23), TurnedTransform),
          Entity("Light", LightData("Cone", 2, 1, 24), IdentityTransform),
          Entity("Light", LightData("Capsule", 2, 1, 25), TurnedTransform)}
    \cup {Entity("Shape", ShapeData(n), TurnedTransform) : n \in VoxelCounts}

\* The inputs of the model with larger trees: one entity of each kind, and one
\* that makes create_object raise.
TreeInputs ==
    {Entity("Body", NoData, NoTransform),
     Entity("Joint", NoData, TurnedTransform),
     Entity("Light", LightData("Sphere", 0, 0, 21), TurnedTransform),
     Entity("Light", LightData("Cone", 0, 1, 23), TurnedTransform),
     Entity("Shape", ShapeData(1), TurnedTransform)}

\* The inputs of the model with several imports.
SessionInputs ==
    {Entity("Body", NoData, NoTransform),
     Entity("Light", LightData("Area", 3, 1, 22), NoTransform),
     Entity("Shape", ShapeData(1), TurnedTransform)}

(***************************************************************************)
(* The entity tree.                                                        *)
(***************************************************************************)
\* Entities are numbered so that a parent precedes its children and a list of
\* children is in ascending order: entity["children"] in stored order.
RECURSIVE ChildrenFrom(_, _, _, _)
ChildrenFrom(par, n, e, k) ==
    IF k > n THEN <<>>
    ELSE IF par[k] = e THEN <<k>> \o ChildrenFrom(par, n, e, k + 1)
    ELSE ChildrenFrom(par, n, e, k + 1)

Children(e) == ChildrenFrom(parentOf, nEntities, e, 1)

Trees(n) == {p \in [1..n -> 0..(n - 1)] : p[1] = 0 /\ \A e \in 2..n : p[e] >= 1 /\ p[e] < e}

(***************************************************************************)
(* get_entity_name and the names derived from it: the handle, the kind     *)
(* and the suffix appended by create_object.                               *)
(***************************************************************************)
get_entity_name(e) == <<e, entities[e].kind>>

NameWith(e, suffix) == get_entity_name(e) \o <<suffix>>

Lower(s) ==
    CASE s = "Sphere" -> "sphere"
      [] s = "Cone" -> "cone"
      [] s = "Area" -> "area"
      [] OTHER -> "capsule"

(***************************************************************************)
(* create_object, kind by kind.  Each operator gives the outcome of the    *)
(* branch: whether it raised, the datablock it made, and the object it     *)
(* made itself (the Shape branch builds its own object).                   *)
(***************************************************************************)
NewLight(name, type) ==
    [name |-> name, type |-> type, color |-> "default", spot_size |-> "default",
     spot_blend |-> "default", energy |-> "default", shadow_soft_size |-> "default"]

\* lines 124-139: the light by kind; raised names the exception of the branch.
LightByKind(e) ==
    LET data == entities[e].data
        name == NameWith(e, Lower(data.kind))
    IN  CASE data.kind = "Sphere" ->
               [raised |-> "",
                light |-> [NewLight(name, "POINT") EXCEPT
                             !.color = <<data.rgba.r, data.rgba.g, data.rgba.b>>]]
          [] data.kind = "Cone" ->
               IF data.cone_angle = 0
               THEN \* penumbra / angle raises ZeroDivisionError after spot_size is set
                    [raised |-> "ZeroDivisionError",
                     light |-> [NewLight(name, "SPOT") EXCEPT !.spot_size = data.cone_angle]]
               ELSE [raised |-> "",
                     light |-> [NewLight(name, "SPOT") EXCEPT
                                  !.spot_size = data.cone_angle,
                                  !.spot_blend = <<data.cone_penumbra, data.cone_angle>>]]
          [] data.kind = "Area" ->
               [raised |-> "", light |-> NewLight(name, "AREA")]
          [] OTHER ->
               \* raise "Unknown light kind ..." raises TypeError; no light was made
               [raised |-> "TypeError", light |-> NoData]

LightFinish_Reach(e, light) ==
    [light EXCEPT !.energy = LightEnergy, !.shadow_soft_size = entities[e].data.reach]

\* lines 141-142
LightFinish(e, light) ==
    [light EXCEPT !.energy = LightEnergy, !.shadow_soft_size = entities[e].data.size]

\* line 145
NVoxels(e) == entities[e].data.voxel_positions_len \div 3

MeshGenerated_AtLimit(e) ==
    /\ entities[e].data.voxel_positions_len # 0
    /\ ~(NVoxels(e) >= VoxelLimit \/ NVoxels(e) > VoxelLimit2)

\* line 148
MeshGenerated(e) ==
    /\ entities[e].data.voxel_positions_len # 0
    /\ ~(NVoxels(e) > VoxelLimit \/ NVoxels(e) > VoxelLimit2)

\* lines 177-183 and 199
ShapeMesh(e) ==
    IF MeshGenerated(e)
    THEN [name |-> NameWith(e, "mesh"), vertices |-> NVoxels(e),
          co_len |-> entities[e].data.voxel_positions_len, scale |-> <<1, 10>>]
    ELSE [name |-> NameWith(e, "weird mesh"), vertices |-> 0, co_len |-> 0,
          scale |-> <<1, 1>>]

\* lines 191-194: the modifiers of the object the Shape branch builds
ShapeModifiers(e) == IF MeshGenerated(e) THEN <<"SKIN">> ELSE <<>>

\* lines 203-208
Location(e) ==
    LET xyz == entities[e].transform.pos
    IN  <<xyz[1], xyz[2], xyz[3]>>

RotationQuaternion_SourceOrder(e) ==
    LET xyzw == entities[e].transform.rot
    IN  <<xyzw[1], xyzw[2], xyzw[3], xyzw[4]>>

RotationQuaternion(e) ==
    LET xyzw == entities[e].transform.rot
    IN  <<xyzw[4], xyzw[1], xyzw[2], xyzw[3]>>

HasTransform(e) == entities[e].transform.some

\* bpy.data.objects.new(name, data) followed by lines 203-208
NewObject(e, data, modifiers) ==
    LET fresh == [name |-> get_entity_name(e), entity |-> e, data |-> data,
                  modifiers |-> modifiers,
                  skin_radius |-> IF modifiers = <<>> THEN "none" ELSE <<5, 5>>,
                  location |-> <<0, 0, 0>>, rotation_mode |-> "XYZ",
                  rotation_quaternion |-> <<1, 0, 0, 0>>, parent |-> 0]
    IN  IF HasTransform(e)
        THEN [fresh EXCEPT !.location = Location(e), !.rotation_mode = "QUATERNION",
                           !.rotation_quaternion = RotationQuaternion(e)]
        ELSE fresh

is_world_body_Enabled == TRUE

\* line 212
is_world_body == FALSE

\* line 114
CountObject(n) == n + 1

\* line 147
CountVoxels(total, e) ==
    IF entities[e].kind = "Shape" THEN total + NVoxels(e) ELSE total

\* Whether create_object(e) raises before it has an object.
Raises(e) == entities[e].kind = "Light" /\ LightByKind(e).raised # ""

(***************************************************************************)
(* The build.                                                              *)
(***************************************************************************)
Top == stack[Len(stack)]

NextCall_FirstChildOnly ==
    IF stack = <<>> THEN 1
    ELSE IF Top.next <= Len(Children(Top.entity)) /\ Top.next <= 1
         THEN Children(Top.entity)[Top.next]
    ELSE 0

\* The entity create_object is called on next: the root by execute, or the
\* next child of the loop at line 213.
NextCall ==
    IF stack = <<>> THEN 1
    ELSE IF Top.next <= Len(Children(Top.entity)) THEN Children(Top.entity)[Top.next]
    ELSE 0

\* ImportBlockModel.execute up to the call of create_object on the root entity
\* with a new collection.  The call is made inside import_as_collection
\* (libteardown_import); lines 259-261 keep the loop it replaced.
Import ==
    /\ pc = "idle"
    /\ importsLeft > 0
    /\ pc' = "importing"
    /\ importsLeft' = importsLeft - 1
    /\ collection' = <<>>
    /\ stack' = <<>>
    /\ importBase' = [objects |-> tot_n_objects, voxels |-> tot_n_voxels]
    /\ raised' = NoError
    /\ UNCHANGED <<nEntities, parentOf, entities, objects, lights, meshes,
                   tot_n_objects, tot_n_voxels>>
    /\ UNCHANGED decodeVars

\* create_object(e, collection) from its call to the loop over the children
\* (lines 112-212), or to the exception it raises.
CreateObject ==
    /\ pc = "importing"
    /\ NextCall # 0
    /\ LET e == NextCall
           kind == entities[e].kind
       IN  /\ tot_n_objects' = CountObject(tot_n_objects)
           /\ tot_n_voxels' = CountVoxels(tot_n_voxels, e)
           /\ IF Raises(e)
              THEN /\ pc' = "crashed"
                   /\ raised' = [entity |-> e, error |-> LightByKind(e).raised]
                   /\ stack' = <<>>
                   /\ lights' = IF LightByKind(e).light = NoData THEN lights
                                ELSE Append(lights, LightByKind(e).light)
                   /\ UNCHANGED <<objects, meshes, collection>>
              ELSE /\ pc' = pc
                   /\ raised' = raised
                   /\ lights' = IF kind = "Light"
                                THEN Append(lights, LightFinish(e, LightByKind(e).light))
                                ELSE lights
                   /\ meshes' = IF kind = "Shape" THEN Append(meshes, ShapeMesh(e))
                                ELSE meshes
                   /\ LET data == CASE kind = "Light" ->
                                         [type |-> "LIGHT", id |-> Len(lights) + 1]
                                    [] kind = "Shape" ->
                                         [type |-> "MESH", id |-> Len(meshes) + 1]
                                    [] OTHER -> [type |-> "EMPTY", id |-> 0]
                          mods == IF kind = "Shape" THEN ShapeModifiers(e) ELSE <<>>
                          obj == Len(objects) + 1
                      IN  /\ objects' = Append(objects, NewObject(e, data, mods))
                          /\ collection' = Append(collection, obj)
                          /\ stack' = Append(stack, [entity |-> e, obj |-> obj, next |-> 1])
    /\ UNCHANGED <<nEntities, parentOf, entities, importsLeft, importBase>>
    /\ UNCHANGED decodeVars

\* "return obj" (line 217) and, in the caller, lines 215-216.
Return ==
    /\ pc = "importing"
    /\ stack # <<>>
    /\ NextCall = 0
    /\ LET child_obj == Top.obj
           rest == SubSeq(stack, 1, Len(stack) - 1)
       IN  IF rest = <<>>
           THEN /\ pc' = "returned"
                /\ stack' = <<>>
                /\ UNCHANGED objects
           ELSE LET caller == rest[Len(rest)]
                IN  /\ pc' = pc
                    /\ objects' = IF ~is_world_body
                                  THEN [objects EXCEPT ![child_obj].parent = caller.obj]
                                  ELSE objects
                    /\ stack' = [rest EXCEPT ![Len(rest)].next = caller.next + 1]
    /\ UNCHANGED <<nEntities, parentOf, entities, lights, meshes, collection,
                   tot_n_objects, tot_n_voxels, importsLeft, importBase, raised>>
    /\ UNCHANGED decodeVars

\* The rest of execute (lines 253-283), or the operator ending with the
\* exception: the add-on is ready for the next import.
Finish ==
    /\ pc \in {"returned", "crashed"}
    /\ pc' = "idle"
    /\ UNCHANGED <<nEntities, parentOf, entities, stack, objects, lights, meshes,
                   collection, tot_n_objects, tot_n_voxels, importsLeft, importBase, raised>>
    /\ UNCHANGED decodeVars

BuildOff ==
    /\ nEntities = 0 /\ parentOf = <<>> /\ entities = <<>>
    /\ pc = "off" /\ stack = <<>> /\ objects = <<>> /\ lights = <<>> /\ meshes = <<>>
    /\ collection = <<>> /\ tot_n_objects = 0 /\ tot_n_voxels = 0
    /\ importsLeft = 0 /\ importBase = [objects |-> 0, voxels |-> 0]
    /\ raised = NoError

DecodeOff ==
    /\ size = <<0, 0, 0>> /\ voxel_data = <<>> /\ dpc = "off"
    /\ gen = [z |-> 0, y |-> 0, x |-> 0, at |-> "end"]
    /\ pos = 0 /\ left = 0 /\ i = 0 /\ verts = <<>> /\ outcome = ""

\* The module as loaded (lines 108-111) and an input file.
InitBuild(maxEntities, inputs, imports) ==
    /\ nEntities \in 1..maxEntities
    /\ parentOf \in Trees(nEntities)
    /\ entities \in [1..nEntities -> inputs]
    /\ pc = "idle"
    /\ stack = <<>>
    /\ objects = <<>>
    /\ lights = <<>>
    /\ meshes = <<>>
    /\ collection = <<>>
    /\ tot_n_objects = 0
    /\ tot_n_voxels = 0
    /\ importsLeft = imports
    /\ importBase = [objects |-> 0, voxels |-> 0]
    /\ raised = NoError

Init == InitBuild(MaxEntities, EntityInputs, 1) /\ DecodeOff

InitTree == InitBuild(MaxTreeEntities, TreeInputs, 1) /\ DecodeOff

InitSession == InitBuild(MaxEntities, SessionInputs, MaxImports) /\ DecodeOff

(***************************************************************************)
(* gen_chunk_coords (lines 92-97) as the generator object it returns: gen  *)
(* is where the generator is suspended, GenNext the state next() leaves it *)
(* in, GenValue the tuple the yield it stops at hands out.                 *)
(***************************************************************************)
GenStart == [z |-> 0, y |-> 0, x |-> 0, at |-> "start"]

GenSentinel == [z |-> 0, y |-> 0, x |-> 0, at |-> "sentinel"]

GenEnd == [z |-> 0, y |-> 0, x |-> 0, at |-> "end"]

GenNext_ShortRow(g, dimensions) ==
    CASE g.at = "start" ->
           IF dimensions[3] > 0 /\ dimensions[2] > 0 /\ dimensions[1] - 1 > 0
           THEN [z |-> 0, y |-> 0, x |-> 0, at |-> "loop"]
           ELSE GenSentinel
      [] g.at = "loop" ->
           IF g.x + 1 < dimensions[1] - 1 THEN [g EXCEPT !.x = g.x + 1]
           ELSE IF g.y + 1 < dimensions[2] THEN [g EXCEPT !.x = 0, !.y = g.y + 1]
           ELSE IF g.z + 1 < dimensions[3] THEN [g EXCEPT !.x = 0, !.y = 0, !.z = g.z + 1]
           ELSE GenSentinel
      [] OTHER -> GenEnd

GenNext(g, dimensions) ==
    CASE g.at = "start" ->
           IF dimensions[3] > 0 /\ dimensions[2] > 0 /\ dimensions[1] > 0
           THEN [z |-> 0, y |-> 0, x |-> 0, at |-> "loop"]
           ELSE GenSentinel
      [] g.at = "loop" ->
           IF g.x + 1 < dimensions[1] THEN [g EXCEPT !.x = g.x + 1]
           ELSE IF g.y + 1 < dimensions[2] THEN [g EXCEPT !.x = 0, !.y = g.y + 1]
           ELSE IF g.z + 1 < dimensions[3] THEN [g EXCEPT !.x = 0, !.y = 0, !.z = g.z + 1]
           ELSE GenSentinel
      [] OTHER -> GenEnd

GenValue(g) == IF g.at = "loop" THEN <<g.x, g.y, g.z>> ELSE <<0, 0, 0>>

\* iter_chunks(seq, 2) (lines 100-101): the chunk that starts at offset p
Chunk(p) == SubSeq(voxel_data, p + 1, IF p + 2 <= Len(voxel_data) THEN p + 2 ELSE Len(voxel_data))

Emits_Always(palette_index) == palette_index >= 0

\* line 171
Emits(palette_index) == palette_index # 0

\* The pair the loop at line 163 runs for.
n_times == voxel_data[pos - 1]
palette_index == voxel_data[pos]

(***************************************************************************)
(* The voxel-run decode loop (lines 160-175).  The source keeps the loop   *)
(* as a comment: the Shape branch now reads data["voxel_positions"], which *)
(* libteardown_import has decoded.                                         *)
(***************************************************************************)
\* line 162: the next chunk unpacks into (n_times, palette_index)
DecodePair ==
    /\ dpc = "pair"
    /\ pos < Len(voxel_data)
    /\ Len(Chunk(pos)) = 2
    /\ pos' = pos + 2
    /\ left' = Chunk(pos)[1] + 1
    /\ dpc' = "run"
    /\ UNCHANGED <<size, voxel_data, gen, i, verts, outcome>>
    /\ UNCHANGED buildVars

\* line 162: a last chunk of one byte does not unpack
DecodeUnpackError ==
    /\ dpc = "pair"
    /\ pos < Len(voxel_data)
    /\ Len(Chunk(pos)) # 2
    /\ outcome' = "ValueError"
    /\ dpc' = "done"
    /\ UNCHANGED <<size, voxel_data, gen, pos, left, i, verts>>
    /\ UNCHANGED buildVars

\* lines 163-172: one iteration of "for _ in range(n_times+1)"
DecodeStep ==
    /\ dpc = "run"
    /\ i' = i + 1
    /\ gen' = GenNext(gen, size)
    /\ IF gen'.at = "end"
       THEN \* next() raised: "Ran out of coordinates...", return the weird mesh
            /\ outcome' = "weird mesh"
            /\ dpc' = "done"
            /\ UNCHANGED <<left, verts>>
       ELSE /\ verts' = IF Emits(palette_index) THEN Append(verts, GenValue(gen'))
                        ELSE verts
            /\ left' = left - 1
            /\ dpc' = IF left' = 0 THEN "pair" ELSE "run"
            /\ outcome' = outcome
    /\ UNCHANGED <<size, voxel_data, pos>>
    /\ UNCHANGED buildVars

\* lines 174-176: the stream is used up, the mesh is made of bm
DecodeFinish ==
    /\ dpc = "pair"
    /\ pos >= Len(voxel_data)
    /\ outcome' = "mesh"
    /\ dpc' = "done"
    /\ UNCHANGED <<size, voxel_data, gen, pos, left, i, verts>>
    /\ UNCHANGED buildVars

RECURSIVE SeqsUpTo(_, _)
SeqsUpTo(S, n) ==
    IF n = 0 THEN {<<>>}
    ELSE LET shorter == SeqsUpTo(S, n - 1)
         IN  shorter \cup {Append(q, b) : q \in {r \in shorter : Len(r) = n - 1}, b \in S}

\* A Shape's size and voxel_data, at line 160.
InitDecode ==
    /\ size \in (0..MaxDim) \X (0..MaxDim) \X (0..MaxDim)
    /\ voxel_data \in SeqsUpTo(0..MaxByte, MaxStreamLen)
    /\ dpc = "pair"
    /\ gen = GenStart
    /\ pos = 0
    /\ left = 0
    /\ i = 0
    /\ verts = <<>>
    /\ outcome = ""
    /\ BuildOff

NextDecode == DecodePair \/ DecodeUnpackError \/ DecodeStep \/ DecodeFinish

SpecDecode == InitDecode /\ [][NextDecode]_vars

Next == Import \/ CreateObject \/ Return \/ Finish

Spec == Init /\ [][Next]_vars

SpecTree == InitTree /\ [][Next]_vars

SpecSession == InitSession /\ [][Next]_vars

(***************************************************************************)
(* Vocabulary of the properties.                                           *)
(***************************************************************************)
\* The positions in the running import's collection of the objects made for e.
LinksOf(e) == {k \in 1..Len(collection) : objects[collection[k]].entity = e}

Built(e) == LinksOf(e) # {}

ObjOf(e) == IF Built(e) THEN collection[CHOOSE k \in LinksOf(e) : TRUE] ELSE 0

\* create_object has been called on e in the running import.
Called(e) == Built(e) \/ raised.entity = e

\* create_object has returned the root's object to execute.
BuildCompleted == pc \in {"returned", "idle"} /\ raised = NoError /\ collection # <<>>

IsKind(e, kind) == entities[e].kind = kind

IsLight(e, kind) == IsKind(e, "Light") /\ entities[e].data.kind = kind

ConeZero(e) == IsLight(e, "Cone") /\ entities[e].data.cone_angle = 0

VoxelCount(e) == entities[e].data.voxel_positions_len \div 3

MeshOf(e) == meshes[objects[ObjOf(e)].data.id]

LightOf(e) == lights[objects[ObjOf(e)].data.id]

\* Depth-first pre-order of the entity tree, children in stored order.
RECURSIVE PreorderKids(_, _)
PreorderKids(e, k) ==
    IF k > nEntities THEN <<>>
    ELSE IF parentOf[k] = e
         THEN (<<k>> \o PreorderKids(k, k + 1)) \o PreorderKids(e, k + 1)
         ELSE PreorderKids(e, k + 1)

Preorder == <<1>> \o PreorderKids(1, 2)

LinkedEntities == [k \in 1..Len(collection) |-> objects[collection[k]].entity]

(***************************************************************************)
(* Properties of the scene build.                                          *)
(***************************************************************************)
\* C1: for every Shape entity create_object has built, the mesh is the
\* vertex-less "weird mesh" placeholder if and only if the voxel count is 0
\* or above 8192 or above 500000; for every other count the mesh is generated
\* with one vertex per voxel.
C1_MeshSkippedIff ==
    \A e \in 1..nEntities :
        (IsKind(e, "Shape") /\ Built(e)) =>
            LET skipped == MeshOf(e).name[3] = "weird mesh" /\ MeshOf(e).vertices = 0
                generated == /\ MeshOf(e).name[3] = "mesh"
                             /\ MeshOf(e).vertices = VoxelCount(e)
                             /\ MeshOf(e).vertices > 0
                             /\ objects[ObjOf(e)].modifiers = <<"SKIN">>
            IN  /\ skipped <=> (VoxelCount(e) = 0 \/ VoxelCount(e) > 8192
                                \/ VoxelCount(e) > 500000)
                /\ ~skipped => generated

C1_Witness ==
    \E e, f \in 1..nEntities :
        /\ IsKind(e, "Shape") /\ Built(e) /\ VoxelCount(e) = 8192
        /\ MeshOf(e).vertices = 8192
        /\ IsKind(f, "Shape") /\ Built(f) /\ VoxelCount(f) = 8193
        /\ MeshOf(f).name[3] = "weird mesh"

\* C2: a Cone light whose cone angle is 0 never ends the import with an
\* exception; once the build has completed it has an Empty scene object.
C2_ConeZeroIsPlaceholder ==
    \A e \in 1..nEntities :
        ConeZero(e) =>
            /\ raised.entity # e
            /\ BuildCompleted => (Built(e) /\ objects[ObjOf(e)].data.type = "EMPTY")

\* C3: after create_object has completed on the tree, the object of every
\* child entity has the object of its parent entity as parent, and the
\* root's object has no parent.
C3_ParentsMirrorTree ==
    BuildCompleted =>
        \A e \in 1..nEntities :
            /\ Built(e)
            /\ objects[ObjOf(e)].parent = IF parentOf[e] = 0 THEN 0 ELSE ObjOf(parentOf[e])

C3_Witness ==
    /\ BuildCompleted
    /\ \E a, b, c, d \in 1..nEntities :
           /\ b # c /\ parentOf[b] = a /\ parentOf[c] = a /\ parentOf[d] = b
           /\ objects[ObjOf(b)].parent = ObjOf(a)
           /\ objects[ObjOf(c)].parent = ObjOf(a)
           /\ objects[ObjOf(d)].parent = ObjOf(b)

\* C7: the object of an entity with a transform has the source position as
\* location and the source rotation (x,y,z,w) as quaternion (w,x,y,z); the
\* object of an entity without a transform keeps the location and rotation
\* a new object has.
C7_TransformMapping ==
    \A e \in 1..nEntities :
        Built(e) =>
            LET o == objects[ObjOf(e)]
                t == entities[e].transform
            IN  IF t.some
                THEN /\ o.location = t.pos
                     /\ o.rotation_quaternion = <<t.rot[4], t.rot[1], t.rot[2], t.rot[3]>>
                ELSE /\ o.location = <<0, 0, 0>>
                     /\ o.rotation_quaternion = <<1, 0, 0, 0>>
                     /\ o.rotation_mode = "XYZ"

C7_Witness ==
    \E e, f, g \in 1..nEntities :
        /\ Built(e) /\ entities[e].transform = TurnedTransform
        /\ objects[ObjOf(e)].rotation_quaternion = <<8, 5, 6, 7>>
        /\ Built(f) /\ entities[f].transform = IdentityTransform
        /\ objects[ObjOf(f)].rotation_quaternion = <<1, 0, 0, 0>>
        /\ Built(g) /\ entities[g].transform = NoTransform

\* What C9 says of the light made for entity e.
LightAsClaimed(e) ==
    /\ Built(e)
    /\ objects[ObjOf(e)].data.type = "LIGHT"
    /\ LET l == LightOf(e)
           d == entities[e].data
       IN  /\ l.type = CASE d.kind = "Sphere" -> "POINT"
                         [] d.kind = "Cone" -> "SPOT"
                         [] OTHER -> "AREA"
           /\ l.energy = 100
           /\ l.shadow_soft_size = d.size
           /\ IF d.kind = "Sphere" THEN l.color = <<d.rgba.r, d.rgba.g, d.rgba.b>>
              ELSE l.color = "default"
           /\ IF d.kind = "Cone"
              THEN l.spot_size = d.cone_angle /\ l.spot_blend # "default"
              ELSE l.spot_size = "default" /\ l.spot_blend = "default"

C8_CountersFreshPerImport ==
    /\ pc = "importing" => importBase = [objects |-> 0, voxels |-> 0]
    /\ BuildCompleted => tot_n_objects = nEntities

\* C10: when create_object has completed on a tree with no failing entity,
\* every entity has exactly one object, the objects are linked in depth-first
\* pre-order (children in stored order), a Body or an entity of another
\* unhandled kind has an Empty object, and the object counter has grown by
\* the number of entities.
C10_OneObjectPerEntityInPreorder ==
    BuildCompleted =>
        /\ LinkedEntities = Preorder
        /\ \A e \in 1..nEntities : Cardinality(LinksOf(e)) = 1
        /\ \A e \in 1..nEntities :
               (IsKind(e, "Body") \/ IsKind(e, "Joint")) =>
                   objects[ObjOf(e)].data.type = "EMPTY"
        /\ tot_n_objects - importBase.objects = nEntities

C10_Witness ==
    /\ BuildCompleted
    /\ nEntities = 4
    /\ LinkedEntities = <<1, 2, 4, 3>>
    /\ IsKind(1, "Body") /\ IsKind(2, "Joint")
    /\ IsKind(3, "Light") /\ IsKind(4, "Shape")
    /\ tot_n_objects = 4

(***************************************************************************)
(* Properties of the voxel-run decode.                                     *)
(***************************************************************************)
Volume == size[1] * size[2] * size[3]

Paired == Len(voxel_data) % 2 = 0

\* Coordinates the first j pairs of the stream need.
RECURSIVE RunSum(_)
RunSum(j) == IF j = 0 THEN 0 ELSE RunSum(j - 1) + voxel_data[2 * j - 1] + 1

NPairs == Len(voxel_data) \div 2

\* The k-th coordinate of the row-major sequence (x fastest, then y, then z),
\* followed by the sentinel at the origin.
CoordAt(k) ==
    IF k > Volume THEN <<0, 0, 0>>
    ELSE <<(k - 1) % size[1], ((k - 1) \div size[1]) % size[2],
           (k - 1) \div (size[1] * size[2])>>

\* The pair whose run holds the k-th coordinate.
PairAt(k) == CHOOSE j \in 1..NPairs : RunSum(j - 1) < k /\ k <= RunSum(j)

RECURSIVE EmittedUpTo(_)
EmittedUpTo(k) ==
    IF k = 0 THEN <<>>
    ELSE EmittedUpTo(k - 1)
         \o (IF voxel_data[2 * PairAt(k)] # 0 THEN <<CoordAt(k)>> ELSE <<>>)

\* C4: a stream of pairs whose run lengths sum to the volume of the chunk is
\* decoded without error and consumes exactly that many coordinates.
C4_ExactStreamDecodes ==
    (dpc = "done" /\ Paired /\ RunSum(NPairs) = Volume) =>
        (outcome = "mesh" /\ i = Volume)

C4_Witness ==
    /\ dpc = "done" /\ Paired /\ size = <<2, 2, 1>> /\ NPairs = 2
    /\ RunSum(NPairs) = Volume /\ outcome = "mesh" /\ i = 4

\* C5: as long as the coordinates have not run out, the pairs decoded so far
\* have advanced exactly the sum of their n+1 coordinates, and the vertices
\* are, in order, the row-major coordinates that lie in runs with a nonzero
\* palette index.
C5_RunsAdvanceAndEmit ==
    outcome # "weird mesh" =>
        /\ verts = EmittedUpTo(i)
        /\ dpc \in {"pair", "done"} => i = RunSum(pos \div 2)

C5_Witness ==
    /\ dpc = "done" /\ outcome = "mesh"
    /\ size = <<1, 2, 2>>
    /\ voxel_data = <<0, 0, 1, 1>>
    /\ i = 3
    /\ verts = <<<<0, 1, 0>>, <<0, 0, 1>>>>

\* C6: a decode that completes without error has consumed as many coordinates
\* as the volume of the chunk, and a stream that needs more than that ends as
\* the rejected shape.
C6_ConsumedEqualsVolume ==
    /\ (dpc = "done" /\ outcome = "mesh") => i = Volume
    /\ (dpc = "done" /\ Paired /\ RunSum(NPairs) > Volume) => outcome = "weird mesh"

====
